---- MODULE Spec2Model ----
(***************************************************************************)
(* Model of Eigen/src/Core/Product.h: the product-mode classifier, the     *)
(* traits of the Product expression, the lazy coefficient and packet       *)
(* evaluators, the cache friendly kernel selector and the three compound   *)
(* assignments that dispatch into it.                                      *)
(*                                                                         *)
(* Scalars are modelled by integers, so every sum is exact and the order   *)
(* of accumulation is not observable in a value.                           *)
(***************************************************************************)
EXTENDS Integers, Sequences, FiniteSets, TLC

(***************************************************************************)
(* Bounds of the model.                                                    *)
(***************************************************************************)
\* largest fixed compile-time size drawn for an operand type
MaxFixed == 2
\* largest runtime dimension of an operand
MaxDim == 3
\* number of distinct contents drawn for each matrix
NumSeeds == 2

(***************************************************************************)
(* Constants of the library that Product.h uses.                           *)
(***************************************************************************)
\* the value Eigen gives to a size that is only known at run time
Dynamic == 10000
\* EIGEN_CACHEFRIENDLY_PRODUCT_THRESHOLD, scaled down to the model's sizes
Threshold == 2
\* EIGEN_UNROLLING_LIMIT
UnrollingLimit == 100

Scalars == {"float", "double"}

\* ei_packet_traits<Scalar>::size (SSE)
PacketSizeOf(scalar) == IF scalar = "float" THEN 4 ELSE 2

\* NumTraits<Scalar>::MulCost and AddCost
MulCost == 1
AddCost == 1

FlagBits == {"RowMajorBit", "DirectAccessBit", "PacketAccessBit"}

\* the bits an expression inherits from its operands
HereditaryBits == {"RowMajorBit", "EvalBeforeNestingBit", "EvalBeforeAssigningBit"}

\* with vectorization enabled ActualPacketAccessBit is PacketAccessBit
ActualPacketAccessBit == "PacketAccessBit"

(***************************************************************************)
(* Operand types: the static traits ei_traits<T> exposes.                  *)
(***************************************************************************)
CompileTimeSizes == (1..MaxFixed) \cup {Dynamic}

\* the maximal size is the size itself when fixed; a dynamic size may be
\* bounded by a fixed maximum or not
MaxSizesOf(n) == IF n = Dynamic THEN {Dynamic, MaxFixed} ELSE {n}

\* ActualAccess is ei_blas_traits<T>::ActualAccess: whether T, once its
\* scalar-multiple wrappers are stripped, gives direct access to its storage
AccessTags == {"HasDirectAccess", "NoDirectAccess"}

OperandTypes(costs) ==
  { [RowsAtCompileTime |-> r, ColsAtCompileTime |-> c,
     MaxRowsAtCompileTime |-> mr, MaxColsAtCompileTime |-> mc,
     Flags |-> f, Scalar |-> s, CoeffReadCost |-> k, ActualAccess |-> a] :
       r \in CompileTimeSizes, c \in CompileTimeSizes,
       mr \in CompileTimeSizes, mc \in CompileTimeSizes,
       f \in SUBSET FlagBits, s \in Scalars, k \in costs, a \in AccessTags }

\* a type with DirectAccessBit is its own base
WellFormedType(t) ==
  /\ t.MaxRowsAtCompileTime \in MaxSizesOf(t.RowsAtCompileTime)
  /\ t.MaxColsAtCompileTime \in MaxSizesOf(t.ColsAtCompileTime)
  /\ ("DirectAccessBit" \in t.Flags) => t.ActualAccess = "HasDirectAccess"

\* a type that wraps nothing: its ActualAccess is its own DirectAccessBit
Unwrapped(t) ==
  (t.ActualAccess = "HasDirectAccess") <=> ("DirectAccessBit" \in t.Flags)

\* the operand types over which the templates are instantiated: the nested
\* operand types are the operand types themselves
AllTypes == { t \in OperandTypes({1}) : WellFormedType(t) /\ Unwrapped(t) }

\* MatrixBase::IsVectorAtCompileTime
IsVectorAtCompileTime(t) == t.RowsAtCompileTime = 1 \/ t.ColsAtCompileTime = 1

RowMajor(t) == "RowMajorBit" \in t.Flags
DirectAccess(t) == "DirectAccessBit" \in t.Flags
PacketAccess(t) == "PacketAccessBit" \in t.Flags

(***************************************************************************)
(* ei_product_mode                                                         *)
(***************************************************************************)
LhsIsVectorAtCompileTime(Lhs, Rhs) ==
  Lhs.ColsAtCompileTime = 1 \/ Rhs.ColsAtCompileTime = 1

ei_product_mode(Lhs, Rhs) ==
  IF /\ Lhs.MaxColsAtCompileTime = Dynamic
     /\ (Lhs.MaxRowsAtCompileTime = Dynamic \/ Rhs.MaxColsAtCompileTime = Dynamic)
     /\ ~(IsVectorAtCompileTime(Rhs) /\ RowMajor(Lhs) /\ ~DirectAccess(Lhs))
     /\ ~(LhsIsVectorAtCompileTime(Lhs, Rhs) /\ ~RowMajor(Rhs) /\ ~DirectAccess(Rhs))
     /\ Lhs.Scalar = Rhs.Scalar
  THEN "CacheFriendlyProduct"
  ELSE "NormalProduct"

(***************************************************************************)
(* ei_traits<Product<LhsNested, RhsNested, ProductMode> >                  *)
(***************************************************************************)
EnumMin(a, b) == IF a <= b THEN a ELSE b

InnerSize(Lhs, Rhs) == EnumMin(Lhs.ColsAtCompileTime, Rhs.RowsAtCompileTime)

CanVectorizeRhs(Lhs, Rhs) ==
  /\ RowMajor(Rhs)
  /\ PacketAccess(Rhs)
  /\ (Rhs.ColsAtCompileTime = Dynamic
       \/ Rhs.ColsAtCompileTime % PacketSizeOf(Lhs.Scalar) = 0)

CanVectorizeLhs(Lhs, Rhs) ==
  /\ ~RowMajor(Lhs)
  /\ PacketAccess(Lhs)
  /\ (Lhs.RowsAtCompileTime = Dynamic
       \/ Lhs.RowsAtCompileTime % PacketSizeOf(Lhs.Scalar) = 0)

\* EvalToRowMajor without the CacheFriendlyProduct case
EvalToRowMajor_anyMode(Lhs, Rhs, ProductMode) ==
  /\ RowMajor(Rhs)
  /\ ~CanVectorizeLhs(Lhs, Rhs)

EvalToRowMajor(Lhs, Rhs, ProductMode) ==
  /\ RowMajor(Rhs)
  /\ IF ProductMode = "CacheFriendlyProduct"
       THEN RowMajor(Lhs)
       ELSE ~CanVectorizeLhs(Lhs, Rhs)

RemovedBits(Lhs, Rhs, ProductMode) ==
  IF EvalToRowMajor(Lhs, Rhs, ProductMode) THEN {} ELSE {"RowMajorBit"}

ProductFlags(Lhs, Rhs, ProductMode) ==
  (((Lhs.Flags \cup Rhs.Flags) \cap HereditaryBits) \ RemovedBits(Lhs, Rhs, ProductMode))
    \cup {"EvalBeforeAssigningBit", "EvalBeforeNestingBit"}
    \cup (IF CanVectorizeLhs(Lhs, Rhs) \/ CanVectorizeRhs(Lhs, Rhs)
            THEN {"PacketAccessBit"} ELSE {})

ProductCoeffReadCost(Lhs, Rhs) ==
  IF InnerSize(Lhs, Rhs) = Dynamic
    THEN Dynamic
    ELSE InnerSize(Lhs, Rhs) * (MulCost + Lhs.CoeffReadCost + Rhs.CoeffReadCost)
           + (InnerSize(Lhs, Rhs) - 1) * AddCost

CanVectorizeInner(Lhs, Rhs) ==
  /\ RowMajor(Lhs)
  /\ ~RowMajor(Rhs)
  /\ ActualPacketAccessBit \in (Lhs.Flags \cap Rhs.Flags)
  /\ InnerSize(Lhs, Rhs) % PacketSizeOf(Lhs.Scalar) = 0

ei_traits_Product(Lhs, Rhs, ProductMode) ==
  [RowsAtCompileTime |-> Lhs.RowsAtCompileTime,
   ColsAtCompileTime |-> Rhs.ColsAtCompileTime,
   MaxRowsAtCompileTime |-> Lhs.MaxRowsAtCompileTime,
   MaxColsAtCompileTime |-> Rhs.MaxColsAtCompileTime,
   InnerSize |-> InnerSize(Lhs, Rhs),
   Flags |-> ProductFlags(Lhs, Rhs, ProductMode),
   CoeffReadCost |-> ProductCoeffReadCost(Lhs, Rhs),
   CanVectorizeInner |-> CanVectorizeInner(Lhs, Rhs),
   ProductMode |-> ProductMode]

(***************************************************************************)
(* ei_cache_friendly_product_selector: resolution of the partial           *)
(* specializations over the tag tuple.                                     *)
(***************************************************************************)
\* ei_blas_traits<T>::ActualAccess
ActualAccess(t) == t.ActualAccess

StorageOrder(t) == IF RowMajor(t) THEN "RowMajor" ELSE "ColMajor"

SelectorTags(Lhs, Rhs) ==
  [LhsRows |-> Lhs.RowsAtCompileTime,
   LhsOrder |-> StorageOrder(Lhs),
   LhsHasDirectAccess |-> ActualAccess(Lhs),
   RhsCols |-> Rhs.ColsAtCompileTime,
   RhsOrder |-> StorageOrder(Rhs),
   RhsHasDirectAccess |-> ActualAccess(Rhs)]

\* the partial specializations, each with the tags it fixes
MatchesLhsSide(tags, order, access) ==
  tags.RhsCols = 1 /\ tags.LhsOrder = order /\ tags.LhsHasDirectAccess = access

MatchesRhsSide(tags, order, access) ==
  tags.LhsRows = 1 /\ tags.RhsOrder = order /\ tags.RhsHasDirectAccess = access

\* the selector without its two empty specializations
MatchingSpecializations_noDiscarded(tags) ==
  (IF MatchesLhsSide(tags, "ColMajor", "NoDirectAccess") THEN {"ColMajorNoDirectTimesVector"} ELSE {})
  \cup (IF MatchesLhsSide(tags, "ColMajor", "HasDirectAccess") THEN {"ColMajorTimesVector"} ELSE {})
  \cup (IF MatchesRhsSide(tags, "RowMajor", "NoDirectAccess") THEN {"VectorTimesRowMajorNoDirect"} ELSE {})
  \cup (IF MatchesRhsSide(tags, "RowMajor", "HasDirectAccess") THEN {"VectorTimesRowMajor"} ELSE {})
  \cup (IF MatchesLhsSide(tags, "RowMajor", "HasDirectAccess") THEN {"RowMajorTimesVector"} ELSE {})
  \cup (IF MatchesRhsSide(tags, "ColMajor", "HasDirectAccess") THEN {"VectorTimesColMajor"} ELSE {})

MatchingSpecializations(tags) ==
  (IF MatchesLhsSide(tags, "ColMajor", "NoDirectAccess") THEN {"ColMajorNoDirectTimesVector"} ELSE {})
  \cup (IF MatchesLhsSide(tags, "ColMajor", "HasDirectAccess") THEN {"ColMajorTimesVector"} ELSE {})
  \cup (IF MatchesRhsSide(tags, "RowMajor", "NoDirectAccess") THEN {"VectorTimesRowMajorNoDirect"} ELSE {})
  \cup (IF MatchesRhsSide(tags, "RowMajor", "HasDirectAccess") THEN {"VectorTimesRowMajor"} ELSE {})
  \cup (IF MatchesLhsSide(tags, "RowMajor", "HasDirectAccess") THEN {"RowMajorTimesVector"} ELSE {})
  \cup (IF MatchesRhsSide(tags, "ColMajor", "HasDirectAccess") THEN {"VectorTimesColMajor"} ELSE {})
  \cup (IF MatchesLhsSide(tags, "RowMajor", "NoDirectAccess") THEN {"DiscardedRowMajorNoDirectTimesVector"} ELSE {})
  \cup (IF MatchesRhsSide(tags, "ColMajor", "NoDirectAccess") THEN {"DiscardedVectorTimesColMajorNoDirect"} ELSE {})

\* a specialization is preferred to the primary template; a left-side and a
\* right-side specialization that both match are not ordered
ei_cache_friendly_product_selector(tags) ==
  LET ms == MatchingSpecializations(tags) IN
    IF ms = {} THEN "GeneralMatrixMatrix"
    ELSE IF Cardinality(ms) = 1 THEN CHOOSE s \in ms : TRUE
    ELSE "Ambiguous"

DiscardedSpecializations ==
  {"DiscardedRowMajorNoDirectTimesVector", "DiscardedVectorTimesColMajorNoDirect"}

\* the resolutions that define a run method
DefinedKernels ==
  {"GeneralMatrixMatrix", "ColMajorNoDirectTimesVector", "ColMajorTimesVector",
   "VectorTimesRowMajorNoDirect", "VectorTimesRowMajor", "RowMajorTimesVector",
   "VectorTimesColMajor"}

(***************************************************************************)
(* Run-time values: dense matrices over the integers.                      *)
(***************************************************************************)
\* a matrix with the given coefficients, a function of (row, col)
Matrix(nrows, ncols, f) == [rows |-> nrows, cols |-> ncols, val |-> f]

coeff(M, i, j) == M.val[<<i, j>>]

\* the contents drawn for an operand of a given shape
Gen(seed, rows, cols) ==
  Matrix(rows, cols,
         [i \in 0..(rows - 1), j \in 0..(cols - 1) |-> (((seed + 1) * (i + 1) + (2 * j + 1) * (seed + 2) + i * j) % 5) - 2])

NoMatrix == [rows |-> 0, cols |-> 0, val |-> << >>]

\* a value that was never written: a number no sum of the model can reach
Undef == -(10 ^ 6)

RECURSIVE SumTo(_, _)
\* f(0) + ... + f(n-1)
SumTo(n, f) == IF n <= 0 THEN 0 ELSE SumTo(n - 1, f) + f[n - 1]

\* the reference product: the sum over k of A(r,k) * B(k,c)
RefCoeff(A, B, r, c) ==
  SumTo(A.cols, [k \in 0..(A.cols - 1) |-> coeff(A, r, k) * coeff(B, k, c)])

RefProduct(A, B) == Matrix(A.rows, B.cols,
         [r \in 0..(A.rows - 1), c \in 0..(B.cols - 1) |-> RefCoeff(A, B, r, c)])

MatAdd(X, Y) == Matrix(X.rows, X.cols,
         [r \in 0..(X.rows - 1), c \in 0..(X.cols - 1) |-> coeff(X, r, c) + coeff(Y, r, c)])
MatSub(X, Y) == Matrix(X.rows, X.cols,
         [r \in 0..(X.rows - 1), c \in 0..(X.cols - 1) |-> coeff(X, r, c) - coeff(Y, r, c)])
MatScale(a, X) == Matrix(X.rows, X.cols,
         [r \in 0..(X.rows - 1), c \in 0..(X.cols - 1) |-> a * coeff(X, r, c)])
setZero(X) == Matrix(X.rows, X.cols,
         [r \in 0..(X.rows - 1), c \in 0..(X.cols - 1) |-> 0])

(***************************************************************************)
(* Normal product .coeff() implementation                                  *)
(***************************************************************************)
\* the outcome of one evaluation: whether an assertion fired, the value
\* written to res and the number of operand coefficients read
Outcome(status, value, reads) == [status |-> status, value |-> value, reads |-> reads]

RECURSIVE ei_product_coeff_impl_unrolled(_, _, _, _, _)
\* ei_product_coeff_impl<NoVectorization, Index, ...>::run, Index >= -1
ei_product_coeff_impl_unrolled(Index, row, col, lhs, rhs) ==
  IF Index = -1 THEN Undef
  ELSE IF Index = 0 THEN coeff(lhs, row, 0) * coeff(rhs, 0, col)
  ELSE ei_product_coeff_impl_unrolled(Index - 1, row, col, lhs, rhs)
         + coeff(lhs, row, Index) * coeff(rhs, Index, col)

RECURSIVE ei_product_coeff_loop_short(_, _, _, _, _, _)
\* the loop with the bound i < lhs.cols() - 1: the last term is left out
ei_product_coeff_loop_short(i, res, row, col, lhs, rhs) ==
  IF i < lhs.cols - 1
    THEN ei_product_coeff_loop_short(i + 1, res + coeff(lhs, row, i) * coeff(rhs, i, col),
                                     row, col, lhs, rhs)
    ELSE res

RECURSIVE ei_product_coeff_loop(_, _, _, _, _, _)
\* the for loop of the Dynamic specialization, from i with res accumulated
ei_product_coeff_loop(i, res, row, col, lhs, rhs) ==
  IF i < lhs.cols
    THEN ei_product_coeff_loop(i + 1, res + coeff(lhs, row, i) * coeff(rhs, i, col),
                               row, col, lhs, rhs)
    ELSE res

\* the Dynamic specialization with the assertion placed after the first
\* product has been formed
ei_product_coeff_impl_dynamic_late_assert(row, col, lhs, rhs) ==
  IF ~(lhs.cols > 0)
    THEN Outcome("assert_failed", Undef, 2)
    ELSE Outcome("ok",
                 ei_product_coeff_loop(1, coeff(lhs, row, 0) * coeff(rhs, 0, col),
                                       row, col, lhs, rhs),
                 2 * lhs.cols)

\* ei_product_coeff_impl<NoVectorization, Dynamic, ...>::run
ei_product_coeff_impl_dynamic(row, col, lhs, rhs) ==
  IF ~(lhs.cols > 0)
    THEN Outcome("assert_failed", Undef, 0)
    ELSE Outcome("ok",
                 ei_product_coeff_loop(1, coeff(lhs, row, 0) * coeff(rhs, 0, col),
                                       row, col, lhs, rhs),
                 2 * lhs.cols)

(***************************************************************************)
(* Packets: PacketSize lanes read from consecutive storage positions.      *)
(***************************************************************************)
\* position of (i,j) in the storage of a matrix of the given order
LinearIndex(t, M, i, j) == IF RowMajor(t) THEN i * M.cols + j ELSE j * M.rows + i

\* the coefficient stored at a linear position, Undef outside the buffer
AtLinear(t, M, n) ==
  IF n < 0 \/ n >= M.rows * M.cols THEN Undef
  ELSE IF RowMajor(t) THEN coeff(M, n \div M.cols, n % M.cols)
  ELSE coeff(M, n % M.rows, n \div M.rows)

\* T::packet<LoadMode>(row, col)
packet(t, M, row, col, PacketSize) ==
  [j \in 0..(PacketSize - 1) |-> AtLinear(t, M, LinearIndex(t, M, row, col) + j)]

Mul(a, b) == IF a = Undef \/ b = Undef THEN Undef ELSE a * b
Add(a, b) == IF a = Undef \/ b = Undef THEN Undef ELSE a + b

ei_pset1(a, PacketSize) == [j \in 0..(PacketSize - 1) |-> a]
ei_pmul(a, b) == [j \in DOMAIN a |-> Mul(a[j], b[j])]
ei_padd(a, b) == [j \in DOMAIN a |-> Add(a[j], b[j])]
ei_pmadd(a, b, c) == ei_padd(ei_pmul(a, b), c)

RECURSIVE ei_predux_from(_, _)
ei_predux_from(a, n) == IF n = 0 THEN a[0] ELSE Add(ei_predux_from(a, n - 1), a[n])

ei_predux(a) == ei_predux_from(a, Cardinality(DOMAIN a) - 1)

RECURSIVE ei_product_coeff_vectorized_unroller(_, _, _, _, _, _, _, _)
\* ei_product_coeff_vectorized_unroller<Index, ...>::run
ei_product_coeff_vectorized_unroller(Index, row, col, Lt, lhs, Rt, rhs, PacketSize) ==
  IF Index = 0
    THEN ei_pmul(packet(Lt, lhs, row, 0, PacketSize), packet(Rt, rhs, 0, col, PacketSize))
    ELSE ei_padd(ei_product_coeff_vectorized_unroller(Index - PacketSize, row, col,
                                                      Lt, lhs, Rt, rhs, PacketSize),
                 ei_pmul(packet(Lt, lhs, row, Index, PacketSize),
                         packet(Rt, rhs, Index, col, PacketSize)))

\* the variant that adds the reduced packet to what the scalar path wrote
ei_product_coeff_impl_innervec_added(Index, row, col, Lt, lhs, Rt, rhs, PacketSize) ==
  LET pres == ei_product_coeff_vectorized_unroller(Index + 1 - PacketSize, row, col,
                                                   Lt, lhs, Rt, rhs, PacketSize)
      scalar == ei_product_coeff_impl_unrolled(Index, row, col, lhs, rhs)
  IN Add(scalar, ei_predux(pres))

\* ei_product_coeff_impl<InnerVectorization, Index, ...>::run: the scalar
\* path writes res first and the reduced packet then overwrites it
ei_product_coeff_impl_innervec(Index, row, col, Lt, lhs, Rt, rhs, PacketSize) ==
  LET pres == ei_product_coeff_vectorized_unroller(Index + 1 - PacketSize, row, col,
                                                   Lt, lhs, Rt, rhs, PacketSize)
      scalar == ei_product_coeff_impl_unrolled(Index, row, col, lhs, rhs)
  IN ei_predux(pres)

\* ei_dot_impl<..., LinearVectorization, NoUnrolling>::run on a row and a column
ei_dot_impl(row, col, lhs, rhs) == RefCoeff(lhs, rhs, row, col)

(***************************************************************************)
(* Product: run-time members                                               *)
(***************************************************************************)
\* Product::rows() and Product::cols()
rows(lhs, rhs) == lhs.rows
cols(lhs, rhs) == rhs.cols

\* the constructor's assertion comparing the row counts
ProductCtorAssert_rows(lhs, rhs) == lhs.rows = rhs.rows

\* the ei_assert of the Product constructor
ProductCtorAssert(lhs, rhs) == lhs.cols = rhs.rows

\* the threshold test with > in place of >=
_useCacheFriendlyProduct_strict(lhs, rhs) ==
  /\ lhs.cols > Threshold
  /\ (lhs.rows > Threshold \/ rhs.cols > Threshold)

\* Product::_useCacheFriendlyProduct
_useCacheFriendlyProduct(lhs, rhs) ==
  /\ lhs.cols >= Threshold
  /\ (rows(lhs, rhs) >= Threshold \/ cols(lhs, rhs) >= Threshold)

\* the static assertions of MatrixBase::operator*
ProductIsValid(Lt, Rt) ==
  \/ Lt.ColsAtCompileTime = Dynamic
  \/ Rt.RowsAtCompileTime = Dynamic
  \/ Lt.ColsAtCompileTime = Rt.RowsAtCompileTime

\* EIGEN_PREDICATE_SAME_MATRIX_SIZE
SameSizes(Lt, Rt) ==
  /\ Lt.RowsAtCompileTime = Rt.RowsAtCompileTime
  /\ Lt.ColsAtCompileTime = Rt.ColsAtCompileTime

OperatorTimesStaticAsserts(Lt, Rt) ==
  LET AreVectors == IsVectorAtCompileTime(Lt) /\ IsVectorAtCompileTime(Rt)
  IN /\ (ProductIsValid(Lt, Rt) \/ ~(AreVectors /\ SameSizes(Lt, Rt)))
     /\ (ProductIsValid(Lt, Rt) \/ ~(SameSizes(Lt, Rt) /\ ~AreVectors))
     /\ (ProductIsValid(Lt, Rt) \/ SameSizes(Lt, Rt))

\* Product::ScalarCoeffImpl::run, as selected by Unroll and CanVectorizeInner
Unroll(tr) == tr.CoeffReadCost <= UnrollingLimit

ScalarCoeffImpl(tr) ==
  [Vectorization |-> IF tr.CanVectorizeInner THEN "InnerVectorization" ELSE "NoVectorization",
   Index |-> IF Unroll(tr) THEN tr.InnerSize - 1 ELSE Dynamic]

ScalarCoeffImpl_run(tr, row, col, Lt, lhs, Rt, rhs) ==
  LET impl == ScalarCoeffImpl(tr) IN
    IF impl.Vectorization = "NoVectorization"
      THEN IF impl.Index = Dynamic
             THEN ei_product_coeff_impl_dynamic(row, col, lhs, rhs)
             ELSE Outcome("ok",
                          ei_product_coeff_impl_unrolled(impl.Index, row, col, lhs, rhs),
                          2 * (impl.Index + 1))
      ELSE IF impl.Index = Dynamic
             THEN Outcome("ok", ei_dot_impl(row, col, lhs, rhs), 2 * lhs.cols)
             ELSE Outcome("ok",
                          ei_product_coeff_impl_innervec(impl.Index, row, col, Lt, lhs, Rt, rhs,
                                                         PacketSizeOf(Lt.Scalar)),
                          4 * (impl.Index + 1))

(***************************************************************************)
(* Packet path                                                             *)
(***************************************************************************)
\* one step of the accumulation, for either storage order of the result
PacketTerm(order, Index, row, col, Lt, lhs, Rt, rhs, PacketSize) ==
  IF order = "RowMajor"
    THEN [a |-> ei_pset1(coeff(lhs, row, Index), PacketSize),
          b |-> packet(Rt, rhs, Index, col, PacketSize)]
    ELSE [a |-> packet(Lt, lhs, row, Index, PacketSize),
          b |-> ei_pset1(coeff(rhs, Index, col), PacketSize)]

RECURSIVE ei_product_packet_impl_unrolled(_, _, _, _, _, _, _, _, _)
\* ei_product_packet_impl<StorageOrder, Index, ...>::run, Index >= 0
ei_product_packet_impl_unrolled(order, Index, row, col, Lt, lhs, Rt, rhs, PacketSize) ==
  LET t == PacketTerm(order, Index, row, col, Lt, lhs, Rt, rhs, PacketSize) IN
    IF Index = 0
      THEN ei_pmul(t.a, t.b)
      ELSE ei_pmadd(t.a, t.b,
                    ei_product_packet_impl_unrolled(order, Index - 1, row, col,
                                                    Lt, lhs, Rt, rhs, PacketSize))

RECURSIVE ei_product_packet_loop_overwrite(_, _, _, _, _, _, _, _, _, _)
\* the loop that multiplies without adding to the accumulator
ei_product_packet_loop_overwrite(order, i, res, row, col, Lt, lhs, Rt, rhs, PacketSize) ==
  IF i < lhs.cols
    THEN LET t == PacketTerm(order, i, row, col, Lt, lhs, Rt, rhs, PacketSize) IN
           ei_product_packet_loop_overwrite(order, i + 1, ei_pmul(t.a, t.b), row, col,
                                            Lt, lhs, Rt, rhs, PacketSize)
    ELSE res

RECURSIVE ei_product_packet_loop(_, _, _, _, _, _, _, _, _, _)
\* the for loop of the Dynamic specializations, from i with res accumulated
ei_product_packet_loop(order, i, res, row, col, Lt, lhs, Rt, rhs, PacketSize) ==
  IF i < lhs.cols
    THEN LET t == PacketTerm(order, i, row, col, Lt, lhs, Rt, rhs, PacketSize) IN
           ei_product_packet_loop(order, i + 1, ei_pmadd(t.a, t.b, res), row, col,
                                  Lt, lhs, Rt, rhs, PacketSize)
    ELSE res

\* ei_product_packet_impl<StorageOrder, Dynamic, ...>::run
ei_product_packet_impl_dynamic(order, row, col, Lt, lhs, Rt, rhs, PacketSize) ==
  IF ~(lhs.cols > 0)
    THEN Outcome("assert_failed", Undef, 0)
    ELSE LET t == PacketTerm(order, 0, row, col, Lt, lhs, Rt, rhs, PacketSize) IN
           Outcome("ok",
                   ei_product_packet_loop(order, 1, ei_pmul(t.a, t.b), row, col,
                                          Lt, lhs, Rt, rhs, PacketSize),
                   (PacketSize + 1) * lhs.cols)

\* Product::packet
Product_packet(tr, row, col, Lt, lhs, Rt, rhs) ==
  LET order == IF "RowMajorBit" \in tr.Flags THEN "RowMajor" ELSE "ColMajor"
      Index == IF Unroll(tr) THEN tr.InnerSize - 1 ELSE Dynamic
      PacketSize == PacketSizeOf(Lt.Scalar)
  IN IF Index = Dynamic
       THEN ei_product_packet_impl_dynamic(order, row, col, Lt, lhs, Rt, rhs, PacketSize)
       ELSE Outcome("ok",
                    ei_product_packet_impl_unrolled(order, Index, row, col,
                                                    Lt, lhs, Rt, rhs, PacketSize),
                    (PacketSize + 1) * (Index + 1))

(***************************************************************************)
(* The statements an evaluator executes on its accumulator, in order.      *)
(***************************************************************************)
\* one statement: the operation and the inner index of the term it uses
Step(op, k) == [op |-> op, k |-> k]

RECURSIVE ei_product_coeff_impl_unrolled_steps_descending(_)
\* the recursion that adds its own term before it recurses
ei_product_coeff_impl_unrolled_steps_descending(Index) ==
  IF Index = -1 THEN << >>
  ELSE IF Index = 0 THEN <<Step("assign", 0)>>
  ELSE <<Step("add", Index)>> \o ei_product_coeff_impl_unrolled_steps_descending(Index - 1)

RECURSIVE ei_product_coeff_impl_unrolled_steps(_)
\* ei_product_coeff_impl<NoVectorization, Index, ...>::run: the recursion on
\* Index - 1 first, then res += of the term Index; res = of the term 0
ei_product_coeff_impl_unrolled_steps(Index) ==
  IF Index = -1 THEN << >>
  ELSE IF Index = 0 THEN <<Step("assign", 0)>>
  ELSE ei_product_coeff_impl_unrolled_steps(Index - 1) \o <<Step("add", Index)>>

RECURSIVE ei_product_coeff_loop_steps(_, _)
\* for (i = 1; i < lhs.cols(); ++i) res += ...
ei_product_coeff_loop_steps(i, n) ==
  IF i < n THEN <<Step("add", i)>> \o ei_product_coeff_loop_steps(i + 1, n) ELSE << >>

\* ei_product_coeff_impl<NoVectorization, Dynamic, ...>::run
ei_product_coeff_impl_dynamic_steps(lhs) ==
  IF ~(lhs.cols > 0) THEN << >>
  ELSE <<Step("assign", 0)>> \o ei_product_coeff_loop_steps(1, lhs.cols)

RECURSIVE ei_product_coeff_vectorized_unroller_steps(_, _)
\* ei_product_coeff_vectorized_unroller<Index, ...>::run
ei_product_coeff_vectorized_unroller_steps(Index, PacketSize) ==
  IF Index = 0 THEN <<Step("pmul", 0)>>
  ELSE ei_product_coeff_vectorized_unroller_steps(Index - PacketSize, PacketSize)
         \o <<Step("padd_pmul", Index)>>

\* ei_product_coeff_impl<InnerVectorization, Index, ...>::run: the packet
\* unroller on pres, the scalar path on res, then res = ei_predux(pres)
ei_product_coeff_impl_innervec_steps(Index, PacketSize) ==
  ei_product_coeff_vectorized_unroller_steps(Index + 1 - PacketSize, PacketSize)
    \o ei_product_coeff_impl_unrolled_steps(Index)
    \o <<Step("assign_predux", Index)>>

\* the statements of Product::ScalarCoeffImpl::run
ScalarCoeffImpl_steps(tr, Lt, lhs) ==
  LET impl == ScalarCoeffImpl(tr) IN
    IF impl.Vectorization = "NoVectorization"
      THEN IF impl.Index = Dynamic
             THEN ei_product_coeff_impl_dynamic_steps(lhs)
             ELSE ei_product_coeff_impl_unrolled_steps(impl.Index)
      ELSE IF impl.Index = Dynamic
             THEN <<Step("assign_dot", 0)>>
             ELSE ei_product_coeff_impl_innervec_steps(impl.Index, PacketSizeOf(Lt.Scalar))

RECURSIVE ei_product_packet_impl_unrolled_steps(_)
\* ei_product_packet_impl<StorageOrder, Index, ...>::run
ei_product_packet_impl_unrolled_steps(Index) ==
  IF Index = 0 THEN <<Step("pmul", 0)>>
  ELSE ei_product_packet_impl_unrolled_steps(Index - 1) \o <<Step("pmadd", Index)>>

RECURSIVE ei_product_packet_loop_steps(_, _)
ei_product_packet_loop_steps(i, n) ==
  IF i < n THEN <<Step("pmadd", i)>> \o ei_product_packet_loop_steps(i + 1, n) ELSE << >>

\* ei_product_packet_impl<StorageOrder, Dynamic, ...>::run
ei_product_packet_impl_dynamic_steps(lhs) ==
  IF ~(lhs.cols > 0) THEN << >>
  ELSE <<Step("pmul", 0)>> \o ei_product_packet_loop_steps(1, lhs.cols)

\* the statements of Product::packet
Product_packet_steps(tr, lhs) ==
  IF Unroll(tr)
    THEN ei_product_packet_impl_unrolled_steps(tr.InnerSize - 1)
    ELSE ei_product_packet_impl_dynamic_steps(lhs)

RECURSIVE RunSteps(_, _, _)
\* the scalar accumulator after the first n statements, terms[k] being the
\* product of the k-th coefficients
RunSteps(steps, n, terms) ==
  IF n = 0 THEN Undef
  ELSE IF steps[n].op = "assign" THEN terms[steps[n].k]
  ELSE Add(RunSteps(steps, n - 1, terms), terms[steps[n].k])

RECURSIVE RunPacketSteps(_, _, _, _)
\* the packet accumulator after the first n statements, a[k] and b[k] being
\* the two packets of the k-th term
RunPacketSteps(steps, n, a, b) ==
  IF n = 0 THEN << >>
  ELSE IF steps[n].op = "pmul" THEN ei_pmul(a[steps[n].k], b[steps[n].k])
  ELSE IF steps[n].op = "pmadd"
         THEN ei_pmadd(a[steps[n].k], b[steps[n].k], RunPacketSteps(steps, n - 1, a, b))
  ELSE ei_padd(RunPacketSteps(steps, n - 1, a, b), ei_pmul(a[steps[n].k], b[steps[n].k]))

(***************************************************************************)
(* Cache friendly product callers                                          *)
(***************************************************************************)
\* an operand expression base * s: the coefficients it shows through coeff,
\* the factor its scalar-multiple wrapper holds and the coefficients of the
\* base under the wrapper; an operand without wrapper has the factor 1
ScalarMultiple(s, M) ==
  [rows |-> M.rows, cols |-> M.cols,
   val |-> [p \in DOMAIN M.val |-> s * M.val[p]],
   factor |-> s, base |-> M.val]

\* ei_blas_traits<T>::extract: the operand without its wrappers
extract(x) == Matrix(x.rows, x.cols, x.base)

\* ei_blas_traits<T>::extractScalarFactor
extractScalarFactor(x) == x.factor

\* MatrixBase::size()
Size(M) == M.rows * M.cols

\* the extraction where the factor of the right operand is dropped
Actuals_lhsFactorOnly(lhs, rhs, a) ==
  [lhs |-> extract(lhs), rhs |-> extract(rhs),
   alpha |-> a * extractScalarFactor(lhs)]

\* actualLhs, actualRhs and actualAlpha, as every caller of a kernel forms them
Actuals(lhs, rhs, a) ==
  [lhs |-> extract(lhs), rhs |-> extract(rhs),
   alpha |-> a * extractScalarFactor(lhs) * extractScalarFactor(rhs)]

\* no kernel was called
NoCall == [lhs |-> NoMatrix, rhs |-> NoMatrix, alpha |-> 0]

\* ei_general_matrix_matrix_product::run: res += alpha * lhs * rhs
ei_general_matrix_matrix_product(lhs, rhs, res, a) ==
  MatAdd(res, MatScale(a, RefProduct(lhs, rhs)))

\* ei_cache_friendly_product_colmajor_times_vector: res += alpha * lhs * rhs
\* for a column-major lhs and a vector rhs
ei_cache_friendly_product_colmajor_times_vector(lhs, rhs, res, a) ==
  MatAdd(res, MatScale(a, RefProduct(lhs, rhs)))

\* ei_cache_friendly_product_rowmajor_times_vector: res += alpha * lhs * rhs
\* for a row-major lhs and a vector rhs
ei_cache_friendly_product_rowmajor_times_vector(lhs, rhs, res, a) ==
  MatAdd(res, MatScale(a, RefProduct(lhs, rhs)))

transpose(M) == Matrix(M.cols, M.rows,
         [i \in 0..(M.cols - 1), j \in 0..(M.rows - 1) |-> coeff(M, j, i)])

\* Product::_cacheFriendlyEvalAndAdd
_cacheFriendlyEvalAndAdd(lhs, rhs, res, a) ==
  LET ac == Actuals(lhs, rhs, a)
  IN ei_general_matrix_matrix_product(ac.lhs, ac.rhs, res, ac.alpha)

RECURSIVE AxpyLoop(_, _, _, _)
\* for (k = 0; k < size; ++k) res += rhs.coeff(k) * lhs.col(k)
AxpyLoop(k, lhs, rhs, res) ==
  IF k < rhs.rows
    THEN AxpyLoop(k + 1, lhs, rhs,
                  Matrix(res.rows, res.cols,
         [i \in 0..(res.rows - 1), j \in 0..(res.cols - 1) |-> coeff(res, i, j) + coeff(rhs, k, 0) * coeff(lhs, i, k)]))
    ELSE res

RECURSIVE DotLoop(_, _, _, _)
\* for (j = 0; j < cols; ++j) res += lhs.coeff(j) * rhs.row(j)
DotLoop(j, lhs, rhs, res) ==
  IF j < lhs.cols
    THEN DotLoop(j + 1, lhs, rhs,
                 Matrix(res.rows, res.cols,
         [r \in 0..(res.rows - 1), c \in 0..(res.cols - 1) |-> coeff(res, r, c) + coeff(lhs, 0, j) * coeff(rhs, j, c)]))
    ELSE res

\* the assertion at the head of the two selectors without direct access
AlphaIsOne(a) == a = 1

\* ei_aligned_stack_new: a buffer whose contents were never written
ei_aligned_stack_new(nrows, ncols) == Matrix(nrows, ncols,
         [i \in 0..(nrows - 1), j \in 0..(ncols - 1) |-> Undef])

\* dst = src through a Map of dst: every coefficient of dst is overwritten
MapAssign(dst, src) == Matrix(dst.rows, dst.cols,
         [i \in 0..(dst.rows - 1), j \in 0..(dst.cols - 1) |-> coeff(src, i, j)])

\* whether the colmajor * vector selector writes the destination in place
EvalToRes(destFlags, PacketSize, wantRowMajor) ==
  \/ PacketSize = 1
  \/ /\ ActualPacketAccessBit \in destFlags
     /\ ("RowMajorBit" \in destFlags) = wantRowMajor

\* UseRhsDirectly of the rowmajor * vector selector, on the flags of the
\* extracted vector
UseRhsDirectly(Rt, PacketSize) ==
  /\ (PacketSize = 1 \/ ActualPacketAccessBit \in Rt.Flags)
  /\ ~RowMajor(Rt)

\* UseLhsDirectly of the vector * colmajor selector
UseLhsDirectly(Lt, PacketSize) ==
  /\ (PacketSize = 1 \/ ActualPacketAccessBit \in Lt.Flags)
  /\ RowMajor(Lt)

\* what a selector does with the scratch stack and when it calls its kernel
Event(op, n) == [op |-> op, n |-> n]

KernelEvent == Event("kernel", 0)

\* the scratch buffer left as ei_aligned_stack_new returns it
Buffer_uninitialized(direct, x) ==
  IF direct THEN x ELSE ei_aligned_stack_new(x.rows, x.cols)

\* the buffer the kernel works on: x itself, or a scratch copy of x
Buffer(direct, x) ==
  IF direct THEN x ELSE MapAssign(ei_aligned_stack_new(x.rows, x.cols), x)

\* if (direct) ... else { ei_aligned_stack_new(Scalar, n); Map(...) = x; }
Acquire(direct, n) ==
  IF direct THEN << >> ELSE <<Event("new", n), Event("copy_in", n)>>

\* the release of the destination's scratch that never deletes it
ReleaseDest_leak(direct, n) ==
  IF ~direct THEN <<Event("copy_out", n)>> ELSE << >>

\* if (!EvalToRes) { res = Map(...); ei_aligned_stack_delete(Scalar, _res, n); }
ReleaseDest(direct, n) ==
  IF ~direct THEN <<Event("copy_out", n), Event("delete", n)>> ELSE << >>

\* if (!UseDirectly) ei_aligned_stack_delete(Scalar, _rhs, n);
ReleaseOperand(direct, n) ==
  IF ~direct THEN <<Event("delete", n)>> ELSE << >>

\* the destination after the kernel: the buffer, copied back when it is scratch
DestResult(direct, res, buf) == IF ~direct THEN MapAssign(res, buf) ELSE buf

\* the outcome of a selector: the destination, the scratch and kernel events
\* and the operands and scalar handed to the kernel
SelectorOutcome(status, value, events, call) ==
  [status |-> status, value |-> value, reads |-> 0, events |-> events, call |-> call]

\* ei_cache_friendly_product_selector<...>::run for the resolved kernel
SelectorRun(k, destFlags, Lt, lhs, Rt, rhs, res, a) ==
  LET ac == Actuals(lhs, rhs, a)
      PacketSize == PacketSizeOf(Lt.Scalar)
  IN
  CASE k = "GeneralMatrixMatrix" ->
         SelectorOutcome("ok", _cacheFriendlyEvalAndAdd(lhs, rhs, res, a),
                         <<KernelEvent>>, ac)
    [] k = "ColMajorNoDirectTimesVector" ->
         IF ~AlphaIsOne(a) THEN SelectorOutcome("assert_failed", res, << >>, NoCall)
         ELSE SelectorOutcome("ok", AxpyLoop(0, lhs, rhs, res), << >>, NoCall)
    [] k = "ColMajorTimesVector" ->
         LET direct == EvalToRes(destFlags, PacketSize, FALSE)
             _res == Buffer(direct, res)
             done == ei_cache_friendly_product_colmajor_times_vector(
                       ac.lhs, ac.rhs, _res, ac.alpha)
         IN SelectorOutcome("ok", DestResult(direct, res, done),
                            Acquire(direct, Size(res)) \o <<KernelEvent>>
                              \o ReleaseDest(direct, Size(res)),
                            ac)
    [] k = "VectorTimesRowMajorNoDirect" ->
         IF ~AlphaIsOne(a) THEN SelectorOutcome("assert_failed", res, << >>, NoCall)
         ELSE SelectorOutcome("ok", DotLoop(0, lhs, rhs, res), << >>, NoCall)
    [] k = "VectorTimesRowMajor" ->
         LET direct == EvalToRes(destFlags, PacketSize, TRUE)
             _res == Buffer(direct, transpose(res))
             done == ei_cache_friendly_product_colmajor_times_vector(
                       transpose(ac.rhs), transpose(ac.lhs), _res, ac.alpha)
         IN SelectorOutcome("ok", DestResult(direct, res, transpose(done)),
                            Acquire(direct, Size(res)) \o <<KernelEvent>>
                              \o ReleaseDest(direct, Size(res)),
                            ac)
    [] k = "RowMajorTimesVector" ->
         LET direct == UseRhsDirectly(Rt, PacketSize)
             _rhs == Buffer(direct, ac.rhs)
         IN SelectorOutcome("ok",
                            ei_cache_friendly_product_rowmajor_times_vector(
                              ac.lhs, _rhs, res, ac.alpha),
                            Acquire(direct, Size(ac.rhs)) \o <<KernelEvent>>
                              \o ReleaseOperand(direct, Size(rhs)),
                            ac)
    [] k = "VectorTimesColMajor" ->
         LET direct == UseLhsDirectly(Lt, PacketSize)
             _lhs == Buffer(direct, ac.lhs)
         IN SelectorOutcome("ok",
                            transpose(ei_cache_friendly_product_rowmajor_times_vector(
                                        transpose(ac.rhs), transpose(_lhs),
                                        transpose(res), ac.alpha)),
                            Acquire(direct, Size(ac.lhs)) \o <<KernelEvent>>
                              \o ReleaseOperand(direct, Size(lhs)),
                            ac)

(***************************************************************************)
(* Lazy assignment of an expression that holds a product: every            *)
(* coefficient of the product is read through Product::coeff.              *)
(***************************************************************************)
ProductCoeffs(tr, Lt, lhs, Rt, rhs) ==
  [p \in (0..(lhs.rows - 1)) \X (0..(rhs.cols - 1)) |->
     ScalarCoeffImpl_run(tr, p[1], p[2], Lt, lhs, Rt, rhs)]

\* the coefficient an assignment stores: dst = src, dst = dst + src or
\* dst = dst - src
Assigned_coeff(op, x, y) ==
  IF op = "+" THEN x + y ELSE IF op = "-" THEN x - y ELSE y

\* the generic MatrixBase::lazyAssign of the product, of dst + product or of
\* dst - product: coefficient by coefficient
lazyAssignCoeffwise(op, dst, tr, Lt, lhs, Rt, rhs) ==
  LET cs == ProductCoeffs(tr, Lt, lhs, Rt, rhs) IN
    IF \E p \in DOMAIN cs : cs[p].status # "ok"
      THEN Outcome("assert_failed", dst, 0)
      ELSE Outcome("ok",
                   Matrix(dst.rows, dst.cols,
                          [r \in 0..(dst.rows - 1), c \in 0..(dst.cols - 1) |->
                             Assigned_coeff(op, coeff(dst, r, c), cs[<<r, c>>].value)]),
                   0)

(***************************************************************************)
(* State.                                                                  *)
(***************************************************************************)
VARIABLES
  pc,       \* position of the program
  Lhs,      \* static traits of the left operand type
  Rhs,      \* static traits of the right operand type
  mode,     \* ProductMode of the Product type
  traits,   \* ei_traits<Product>
  kernel,   \* resolution of ei_cache_friendly_product_selector
  m_lhs,    \* Product::m_lhs
  m_rhs,    \* Product::m_rhs
  dest,     \* static flags of the destination type
  res,      \* the destination
  oldRes,   \* the destination before the last assignment
  branch,   \* branch taken by the last assignment
  alpha,    \* alpha handed to the selector by the last assignment
  at,       \* (row, col) of the last coeff or packet call
  out,      \* value returned by the last coeff or packet call
  status,   \* "ok", or the assertion that stopped the program
  reads,    \* operand coefficients read by the last coeff or packet call
  steps,    \* statements the last coeff or packet call executed
  events,   \* scratch and kernel events of the last selector run
  call      \* operands and scalar the last selector run handed to its kernel

vars == <<pc, Lhs, Rhs, mode, traits, kernel, m_lhs, m_rhs, dest, res, oldRes,
          branch, alpha, at, out, status, reads, steps, events, call>>

None == "none"

typeVars == <<Lhs, Rhs>>
valueVars == <<m_lhs, m_rhs>>
evalVars == <<dest, res, oldRes, branch, alpha, at, out, reads, steps, events, call>>

NothingEvaluated ==
  /\ dest = None /\ res = NoMatrix /\ oldRes = NoMatrix /\ branch = None
  /\ alpha = 0 /\ at = None /\ out = None /\ reads = 0
  /\ steps = << >> /\ events = << >> /\ call = NoCall

(***************************************************************************)
(* Instantiation of the templates over the operand types.                  *)
(***************************************************************************)
TypeInit ==
  /\ pc = "types"
  /\ Lhs \in AllTypes
  /\ Rhs \in AllTypes
  /\ mode = None /\ traits = None /\ kernel = None
  /\ m_lhs = NoMatrix /\ m_rhs = NoMatrix
  /\ status = "ok"
  /\ NothingEvaluated

\* ProductReturnType<Lhs, Rhs, ei_product_mode<Lhs,Rhs>::value>
ProductReturnType ==
  /\ pc = "types"
  /\ mode' = ei_product_mode(Lhs, Rhs)
  /\ pc' = "mode"
  /\ UNCHANGED <<typeVars, traits, kernel, valueVars, evalVars, status>>

\* ei_traits<Product<LhsNested, RhsNested, ProductMode> >, with the operands
\* nested by reference; the product scalar exists for equal scalars
InstantiateTraits ==
  /\ pc = "mode"
  /\ Lhs.Scalar = Rhs.Scalar
  /\ traits' = ei_traits_Product(Lhs, Rhs, mode)
  /\ pc' = "traits"
  /\ UNCHANGED <<typeVars, mode, kernel, valueVars, evalVars, status>>

\* ei_cache_friendly_product_selector<ProductType>
InstantiateSelector ==
  /\ pc = "traits"
  /\ kernel' = ei_cache_friendly_product_selector(SelectorTags(Lhs, Rhs))
  /\ pc' = "selected"
  /\ UNCHANGED <<typeVars, mode, traits, valueVars, evalVars, status>>

TypeNext == ProductReturnType \/ InstantiateTraits \/ InstantiateSelector

TypeSpec == TypeInit /\ [][TypeNext]_vars

(***************************************************************************)
(* The program: a product is formed by operator* and then read or         *)
(* assigned once.                                                          *)
(***************************************************************************)
\* CoeffReadCost of an expression too costly for the product to be unrolled
HighCost == 50

PlainFlags == {{"DirectAccessBit", "PacketAccessBit"},
               {"RowMajorBit", "DirectAccessBit", "PacketAccessBit"}}
ExpressionFlags == {{}, {"RowMajorBit"}}
\* a scalar multiple of a plain matrix: the flags of the matrix without
\* DirectAccessBit
ScalarMultipleFlags == {{"PacketAccessBit"}, {"RowMajorBit", "PacketAccessBit"}}

\* the factor held by the scalar multiples of a program
ScaleFactor == 2

\* double matrices and expressions with at least one dynamic dimension
MatrixAndExpressionTypes ==
  { t \in OperandTypes({1, HighCost}) :
      /\ t.Scalar = "double"
      /\ t.MaxRowsAtCompileTime = t.RowsAtCompileTime
      /\ t.MaxColsAtCompileTime = t.ColsAtCompileTime
      /\ (t.RowsAtCompileTime = Dynamic \/ t.ColsAtCompileTime = Dynamic)
      /\ t.Flags \in PlainFlags \cup ExpressionFlags
      /\ Unwrapped(t)
      /\ (t.CoeffReadCost = HighCost => t.Flags = {}) }

\* scalar multiples s * M of a plain matrix or vector M: no DirectAccessBit
\* of their own, direct access once the wrapper is stripped
ScalarMultipleTypes ==
  { t \in OperandTypes({1}) :
      /\ t.Scalar = "double"
      /\ t.MaxRowsAtCompileTime = t.RowsAtCompileTime
      /\ t.MaxColsAtCompileTime = t.ColsAtCompileTime
      /\ t.RowsAtCompileTime \in {1, Dynamic}
      /\ t.ColsAtCompileTime \in {1, Dynamic}
      /\ (t.RowsAtCompileTime = Dynamic \/ t.ColsAtCompileTime = Dynamic)
      /\ t.Flags \in ScalarMultipleFlags
      /\ t.ActualAccess = "HasDirectAccess" }

\* an inner size of two packets, fixed at compile time
TwoPackets == 2 * PacketSizeOf("double")

\* a row-major matrix with TwoPackets columns and a column-major matrix with
\* TwoPackets rows: their product is evaluated by the inner-vectorized variant
\* with more than one packet
TwoPacketTypes ==
  { [RowsAtCompileTime |-> Dynamic, ColsAtCompileTime |-> TwoPackets,
     MaxRowsAtCompileTime |-> Dynamic, MaxColsAtCompileTime |-> TwoPackets,
     Flags |-> {"RowMajorBit", "DirectAccessBit", "PacketAccessBit"},
     Scalar |-> "double", CoeffReadCost |-> 1, ActualAccess |-> "HasDirectAccess"],
    [RowsAtCompileTime |-> TwoPackets, ColsAtCompileTime |-> Dynamic,
     MaxRowsAtCompileTime |-> TwoPackets, MaxColsAtCompileTime |-> Dynamic,
     Flags |-> {"DirectAccessBit", "PacketAccessBit"},
     Scalar |-> "double", CoeffReadCost |-> 1, ActualAccess |-> "HasDirectAccess"] }

\* the operand types a program is built from
RuntimeTypes == MatrixAndExpressionTypes \cup ScalarMultipleTypes \cup TwoPacketTypes

\* the factors an operand of a type may hold
FactorsOf(t) == IF t \in ScalarMultipleTypes THEN {ScaleFactor} ELSE {1}

\* run-time sizes a compile-time size admits
RuntimeSizes(n, lo) == IF n = Dynamic THEN lo..MaxDim ELSE {n}

Seeds == 0..(NumSeeds - 1)

\* the destination types: plain column-major and row-major matrices
DestTypes == {{"PacketAccessBit"}, {"RowMajorBit", "PacketAccessBit"}}

Init ==
  /\ pc = "start"
  /\ Lhs = None /\ Rhs = None
  /\ mode = None /\ traits = None /\ kernel = None
  /\ m_lhs = NoMatrix /\ m_rhs = NoMatrix
  /\ status = "ok"
  /\ NothingEvaluated

\* MatrixBase::operator*, with the Product constructor it calls
OperatorTimes ==
  /\ pc = "start"
  /\ \E Lt \in RuntimeTypes, Rt \in RuntimeTypes :
       /\ Lhs' = Lt
       /\ Rhs' = Rt
       /\ IF ~OperatorTimesStaticAsserts(Lt, Rt)
            THEN /\ pc' = "rejected"
                 /\ status' = "static_assert"
                 /\ UNCHANGED <<mode, traits, valueVars>>
            ELSE \E m \in RuntimeSizes(Lt.RowsAtCompileTime, 1),
                    k \in RuntimeSizes(Lt.ColsAtCompileTime, 0),
                    k2 \in RuntimeSizes(Rt.RowsAtCompileTime, 0),
                    n \in RuntimeSizes(Rt.ColsAtCompileTime, 1),
                    s \in Seeds,
                    fl \in FactorsOf(Lt), fr \in FactorsOf(Rt) :
                   LET lhs == ScalarMultiple(fl, Gen(s, m, k))
                       rhs == ScalarMultiple(fr, Gen(s + 1, k2, n))
                   IN /\ mode' = ei_product_mode(Lt, Rt)
                      /\ traits' = ei_traits_Product(Lt, Rt, ei_product_mode(Lt, Rt))
                      /\ m_lhs' = lhs
                      /\ m_rhs' = rhs
                      /\ IF ProductCtorAssert(lhs, rhs)
                           THEN pc' = "product" /\ status' = "ok"
                           ELSE pc' = "aborted" /\ status' = "assert_failed"
  /\ UNCHANGED <<kernel, evalVars>>

\* Product::coeff(row, col)
Coeff ==
  /\ pc = "product"
  /\ \E row \in 0..(rows(m_lhs, m_rhs) - 1), col \in 0..(cols(m_lhs, m_rhs) - 1) :
       LET o == ScalarCoeffImpl_run(traits, row, col, Lhs, m_lhs, Rhs, m_rhs) IN
         /\ at' = <<row, col>>
         /\ out' = o.value
         /\ status' = o.status
         /\ reads' = o.reads
         /\ steps' = ScalarCoeffImpl_steps(traits, Lhs, m_lhs)
  /\ pc' = "coeff_done"
  /\ UNCHANGED <<typeVars, mode, traits, kernel, valueVars, dest, res, oldRes, branch, alpha,
                 events, call>>

\* a read outside an operand's storage returns whatever lies there
Garbage == {-1, 7}

\* Product::coeff(index) of a product that is a vector at run time
CoeffIndex ==
  /\ pc = "product"
  /\ (rows(m_lhs, m_rhs) = 1 \/ cols(m_lhs, m_rhs) = 1)
  /\ \E index \in 0..(rows(m_lhs, m_rhs) * cols(m_lhs, m_rhs) - 1) :
       LET row == IF traits.RowsAtCompileTime = 1 THEN 0 ELSE index
           col == IF traits.RowsAtCompileTime = 1 THEN index ELSE 0
       IN /\ at' = <<row, col, index>>
          /\ IF row < rows(m_lhs, m_rhs) /\ col < cols(m_lhs, m_rhs)
               THEN LET o == ScalarCoeffImpl_run(traits, row, col, Lhs, m_lhs, Rhs, m_rhs) IN
                      /\ out' = o.value
                      /\ status' = o.status
                      /\ reads' = o.reads
               ELSE /\ \/ out' \in Garbage /\ status' = "ok"
                       \/ out' = Undef /\ status' = "assert_failed"
                    /\ reads' = 0
          /\ steps' = ScalarCoeffImpl_steps(traits, Lhs, m_lhs)
  /\ pc' = "coeff_index_done"
  /\ UNCHANGED <<typeVars, mode, traits, kernel, valueVars, dest, res, oldRes, branch, alpha,
                 events, call>>

\* the positions at which a packet of the product lies inside the product
PacketPositions ==
  LET P == PacketSizeOf(Lhs.Scalar) IN
    IF "RowMajorBit" \in traits.Flags
      THEN { p \in (0..(m_lhs.rows - 1)) \X (0..(m_rhs.cols - 1)) : p[2] + P <= m_rhs.cols }
      ELSE { p \in (0..(m_lhs.rows - 1)) \X (0..(m_rhs.cols - 1)) : p[1] + P <= m_lhs.rows }

\* Product::packet<LoadMode>(row, col)
Packet ==
  /\ pc = "product"
  /\ "PacketAccessBit" \in traits.Flags
  /\ \E p \in PacketPositions :
       LET o == Product_packet(traits, p[1], p[2], Lhs, m_lhs, Rhs, m_rhs) IN
         /\ at' = p
         /\ out' = o.value
         /\ status' = o.status
         /\ reads' = o.reads
         /\ steps' = Product_packet_steps(traits, m_lhs)
  /\ pc' = "packet_done"
  /\ UNCHANGED <<typeVars, mode, traits, kernel, valueVars, dest, res, oldRes, branch, alpha,
                 events, call>>

\* the three assignments are overloads for CacheFriendlyProduct; they compile
\* when the selector resolves to a specialization that defines run
AssignsCacheFriendly(k) ==
  /\ pc = "product"
  /\ mode = "CacheFriendlyProduct"
  /\ k = ei_cache_friendly_product_selector(SelectorTags(Lhs, Rhs))
  /\ k \in DefinedKernels

\* the destination before the assignment
Destination(s) == Gen(s + 2, rows(m_lhs, m_rhs), cols(m_lhs, m_rhs))

\* operator+= whose lazy branch assigns the product alone
operator_plus_assign_overwrite(k, d, tr, Lt, lhs, Rt, rhs, C) ==
  IF _useCacheFriendlyProduct(lhs, rhs)
    THEN SelectorRun(k, d, Lt, lhs, Rt, rhs, C, 1)
    ELSE lazyAssignCoeffwise("=", C, tr, Lt, lhs, Rt, rhs)

\* MatrixBase::operator+=(Flagged<Product<Lhs,Rhs,CacheFriendlyProduct>,...>)
operator_plus_assign(k, d, tr, Lt, lhs, Rt, rhs, C) ==
  IF _useCacheFriendlyProduct(lhs, rhs)
    THEN SelectorRun(k, d, Lt, lhs, Rt, rhs, C, 1)
    ELSE lazyAssignCoeffwise("+", C, tr, Lt, lhs, Rt, rhs)

\* MatrixBase::operator-=(Flagged<Product<Lhs,Rhs,CacheFriendlyProduct>,...>)
operator_minus_assign(k, d, tr, Lt, lhs, Rt, rhs, C) ==
  IF _useCacheFriendlyProduct(lhs, rhs)
    THEN SelectorRun(k, d, Lt, lhs, Rt, rhs, C, -1)
    ELSE lazyAssignCoeffwise("-", C, tr, Lt, lhs, Rt, rhs)

\* lazyAssign without the call of setZero
lazyAssign_noSetZero(k, d, tr, Lt, lhs, Rt, rhs, C) ==
  IF _useCacheFriendlyProduct(lhs, rhs)
    THEN SelectorRun(k, d, Lt, lhs, Rt, rhs, C, 1)
    ELSE IF ~ProductCtorAssert(lhs, rhs)
           THEN Outcome("assert_failed", C, 0)
           ELSE lazyAssignCoeffwise("=", C,
                                    ei_traits_Product(Lt, Rt, "NormalProduct"),
                                    Lt, lhs, Rt, rhs)

\* MatrixBase::lazyAssign(Product<Lhs,Rhs,CacheFriendlyProduct>); below the
\* threshold the operands are wrapped again as a NormalProduct, whose
\* constructor repeats the assertion, and that product is assigned lazily
lazyAssign(k, d, tr, Lt, lhs, Rt, rhs, C) ==
  IF _useCacheFriendlyProduct(lhs, rhs)
    THEN SelectorRun(k, d, Lt, lhs, Rt, rhs, setZero(C), 1)
    ELSE IF ~ProductCtorAssert(lhs, rhs)
           THEN Outcome("assert_failed", C, 0)
           ELSE lazyAssignCoeffwise("=", C,
                                    ei_traits_Product(Lt, Rt, "NormalProduct"),
                                    Lt, lhs, Rt, rhs)

\* the events and the kernel call of an assignment: none on the lazy branch
EventsOf(o) == IF "events" \in DOMAIN o THEN o.events ELSE << >>
CallOf(o) == IF "call" \in DOMAIN o THEN o.call ELSE NoCall

\* the alpha the assignment hands to the selector, 0 when it does not call it
AlphaOf(lhs, rhs, a) == IF _useCacheFriendlyProduct(lhs, rhs) THEN a ELSE 0
BranchOf(lhs, rhs) == IF _useCacheFriendlyProduct(lhs, rhs) THEN "kernel" ELSE "lazy"

\* C += A*B
PlusAssign ==
  \E k \in DefinedKernels, d \in DestTypes, s \in Seeds :
    /\ AssignsCacheFriendly(k)
    /\ LET C == Destination(s)
           o == operator_plus_assign(k, d, traits, Lhs, m_lhs, Rhs, m_rhs, C)
       IN /\ kernel' = k
          /\ dest' = d
          /\ oldRes' = C
          /\ res' = o.value
          /\ status' = o.status
          /\ branch' = BranchOf(m_lhs, m_rhs)
          /\ alpha' = AlphaOf(m_lhs, m_rhs, 1)
          /\ events' = EventsOf(o)
          /\ call' = CallOf(o)
    /\ pc' = "plus_assigned"
    /\ UNCHANGED <<typeVars, mode, traits, valueVars, at, out, reads, steps>>

\* C -= A*B
MinusAssign ==
  \E k \in DefinedKernels, d \in DestTypes, s \in Seeds :
    /\ AssignsCacheFriendly(k)
    /\ LET C == Destination(s)
           o == operator_minus_assign(k, d, traits, Lhs, m_lhs, Rhs, m_rhs, C)
       IN /\ kernel' = k
          /\ dest' = d
          /\ oldRes' = C
          /\ res' = o.value
          /\ status' = o.status
          /\ branch' = BranchOf(m_lhs, m_rhs)
          /\ alpha' = AlphaOf(m_lhs, m_rhs, -1)
          /\ events' = EventsOf(o)
          /\ call' = CallOf(o)
    /\ pc' = "minus_assigned"
    /\ UNCHANGED <<typeVars, mode, traits, valueVars, at, out, reads, steps>>

\* C = A*B
LazyAssign ==
  \E k \in DefinedKernels, d \in DestTypes, s \in Seeds :
    /\ AssignsCacheFriendly(k)
    /\ LET C == Destination(s)
           o == lazyAssign(k, d, traits, Lhs, m_lhs, Rhs, m_rhs, C)
       IN /\ kernel' = k
          /\ dest' = d
          /\ oldRes' = C
          /\ res' = o.value
          /\ status' = o.status
          /\ branch' = BranchOf(m_lhs, m_rhs)
          /\ alpha' = AlphaOf(m_lhs, m_rhs, 1)
          /\ events' = EventsOf(o)
          /\ call' = CallOf(o)
    /\ pc' = "lazy_assigned"
    /\ UNCHANGED <<typeVars, mode, traits, valueVars, at, out, reads, steps>>

Next ==
  OperatorTimes \/ Coeff \/ CoeffIndex \/ Packet \/ PlusAssign \/ MinusAssign \/ LazyAssign

Spec == Init /\ [][Next]_vars

(***************************************************************************)
(* Properties of the classifier, the traits and the selector.              *)
(***************************************************************************)
\* C1: the classifier returns CacheFriendly iff A.maxCols is Dynamic, A.maxRows
\* or B.maxCols is Dynamic, not (B is a vector and A is row-major without
\* direct access), not (A is a vector and B is column-major without direct
\* access) and the scalar types are equal; otherwise it returns Normal.
C1_ClassifierMatchesFiveConditions ==
  pc # "types" =>
    /\ mode \in {"CacheFriendlyProduct", "NormalProduct"}
    /\ (mode = "CacheFriendlyProduct") <=>
         /\ Lhs.MaxColsAtCompileTime = Dynamic
         /\ (Lhs.MaxRowsAtCompileTime = Dynamic \/ Rhs.MaxColsAtCompileTime = Dynamic)
         /\ ~((Rhs.RowsAtCompileTime = 1 \/ Rhs.ColsAtCompileTime = 1)
               /\ "RowMajorBit" \in Lhs.Flags /\ "DirectAccessBit" \notin Lhs.Flags)
         /\ ~((Lhs.RowsAtCompileTime = 1 \/ Lhs.ColsAtCompileTime = 1)
               /\ "RowMajorBit" \notin Rhs.Flags /\ "DirectAccessBit" \notin Rhs.Flags)
         /\ Lhs.Scalar = Rhs.Scalar

RowMajorNoDirectTimesVector ==
  /\ "RowMajorBit" \in Lhs.Flags /\ "DirectAccessBit" \notin Lhs.Flags
  /\ Rhs.ColsAtCompileTime = 1

VectorTimesColMajorNoDirect ==
  /\ Lhs.RowsAtCompileTime = 1
  /\ "RowMajorBit" \notin Rhs.Flags /\ "DirectAccessBit" \notin Rhs.Flags

\* C7 as stated: the tuples (row-major matrix without direct access) x vector
\* and vector x (column-major matrix without direct access) resolve to the
\* general matrix-matrix kernel of the primary template.
C7_DiscardedTuplesResolveToGemm ==
  (pc = "selected" /\ (RowMajorNoDirectTimesVector \/ VectorTimesColMajorNoDirect))
    => kernel = "GeneralMatrixMatrix"

\* C7 amended: those two tuples never resolve to the primary template nor to
\* any specialization that defines run. Each matches its empty (discarded)
\* specialization, which is the resolution unless the product has both one
\* row and one column at compile time, where a second specialization matches
\* as well and the resolution is ambiguous.
C7_DiscardedTuplesHaveNoKernel ==
  pc = "selected" =>
    /\ (RowMajorNoDirectTimesVector \/ VectorTimesColMajorNoDirect)
         => kernel \notin DefinedKernels
    /\ (RowMajorNoDirectTimesVector /\ Lhs.RowsAtCompileTime # 1)
         => kernel = "DiscardedRowMajorNoDirectTimesVector"
    /\ (VectorTimesColMajorNoDirect /\ Rhs.ColsAtCompileTime # 1)
         => kernel = "DiscardedVectorTimesColMajorNoDirect"

C7_Witness ==
  /\ pc = "selected"
  /\ VectorTimesColMajorNoDirect
  /\ kernel = "DiscardedVectorTimesColMajorNoDirect"

\* C10: a CacheFriendly product carries RowMajorBit iff both operands are
\* row-major; a Normal product carries it iff the right operand is row-major
\* and the left operand is not vectorizable (column-major with packet access
\* and a row count that is dynamic or a multiple of the packet size).
C10_RowMajorResult ==
  pc \in {"traits", "selected"} =>
    LET lhsVectorizable ==
          /\ "RowMajorBit" \notin Lhs.Flags
          /\ "PacketAccessBit" \in Lhs.Flags
          /\ (Lhs.RowsAtCompileTime = Dynamic
               \/ Lhs.RowsAtCompileTime % PacketSizeOf(Lhs.Scalar) = 0)
    IN  /\ mode = "CacheFriendlyProduct" =>
             ("RowMajorBit" \in traits.Flags
                <=> ("RowMajorBit" \in Lhs.Flags /\ "RowMajorBit" \in Rhs.Flags))
        /\ mode = "NormalProduct" =>
             ("RowMajorBit" \in traits.Flags
                <=> ("RowMajorBit" \in Rhs.Flags /\ ~lhsVectorizable))

C10_Witness ==
  /\ pc = "traits"
  /\ mode = "CacheFriendlyProduct"
  /\ "RowMajorBit" \in Rhs.Flags
  /\ "RowMajorBit" \notin Lhs.Flags
  /\ "RowMajorBit" \notin traits.Flags

(***************************************************************************)
(* Properties of the program.                                              *)
(***************************************************************************)
Assigned == {"plus_assigned", "minus_assigned", "lazy_assigned"}

ScalarVariant ==
  ScalarCoeffImpl(traits).Vectorization = "NoVectorization"

\* C2: with an inner size of at least 1, coeff(r,c) of the unrolled and of the
\* dynamic scalar evaluator returns the sum over k of A(r,k)*B(k,c).
C2_ScalarCoeffEqualsReference ==
  (pc = "coeff_done" /\ ScalarVariant /\ m_lhs.cols >= 1) =>
    /\ status = "ok"
    /\ out = RefCoeff(m_lhs, m_rhs, at[1], at[2])

C2_Witness ==
  /\ pc = "coeff_done"
  /\ ScalarVariant
  /\ ScalarCoeffImpl(traits).Index = Dynamic
  /\ m_lhs.cols >= 3
  /\ status = "ok"
  /\ out # 0
  /\ out # coeff(m_lhs, at[1], 0) * coeff(m_rhs, 0, at[2])

C2_WitnessUnrolled ==
  /\ pc = "coeff_done"
  /\ ScalarVariant
  /\ ScalarCoeffImpl(traits).Index = 1
  /\ m_lhs.cols = 2
  /\ out # coeff(m_lhs, at[1], 0) * coeff(m_rhs, 0, at[2])

\* C3 as stated: the kernel branch is taken iff the inner size exceeds the
\* threshold and rows() or cols() exceeds it.
C3_KernelIffAboveThreshold ==
  pc \in Assigned =>
    (branch = "kernel" <=>
       /\ m_lhs.cols > Threshold
       /\ (m_lhs.rows > Threshold \/ m_rhs.cols > Threshold))

\* C3 amended: the kernel branch is taken iff the inner size is at least the
\* threshold and rows() or cols() is at least the threshold; a product whose
\* sizes all equal the threshold goes to the kernel.
C3_KernelIffAtLeastThreshold ==
  pc \in Assigned =>
    (branch = "kernel" <=>
       /\ m_lhs.cols >= Threshold
       /\ (m_lhs.rows >= Threshold \/ m_rhs.cols >= Threshold))

C3_Witness ==
  /\ pc \in Assigned
  /\ branch = "kernel"
  /\ m_lhs.cols = Threshold
  /\ m_lhs.rows <= Threshold
  /\ m_rhs.cols <= Threshold

\* C4: C -= A*B through the selector completes without an assertion failure
\* and leaves C equal to the old C minus A*B, for every kernel.
C4_MinusAssignThroughKernel ==
  (pc = "minus_assigned" /\ branch = "kernel") =>
    /\ alpha = -1
    /\ status = "ok"
    /\ res = MatSub(oldRes, RefProduct(m_lhs, m_rhs))

\* C5: C = A*B leaves C equal to A*B whatever C held, on the kernel branch
\* (C set to zero, then 1*A*B added) and on the lazy branch, so both branches
\* agree; no assertion fires when the inner size is at least 1.
C5_AssignGivesProduct ==
  pc = "lazy_assigned" =>
    /\ m_lhs.cols >= 1 => status = "ok"
    /\ status = "ok" => res = RefProduct(m_lhs, m_rhs)
    /\ branch = "kernel" => alpha = 1

C5_Witness ==
  /\ pc = "lazy_assigned"
  /\ branch = "kernel"
  /\ status = "ok"
  /\ oldRes # setZero(oldRes)
  /\ res # MatAdd(oldRes, RefProduct(m_lhs, m_rhs))

C5_WitnessLazy ==
  /\ pc = "lazy_assigned"
  /\ branch = "lazy"
  /\ status = "ok"
  /\ m_lhs.cols >= 1
  /\ res # oldRes

\* C6: C += A*B leaves C equal to the old C plus A*B on the kernel branch
\* (alpha = 1) and on the lazy branch; no assertion fires when the inner size
\* is at least 1.
C6_PlusAssignAddsProduct ==
  pc = "plus_assigned" =>
    /\ m_lhs.cols >= 1 => status = "ok"
    /\ status = "ok" => res = MatAdd(oldRes, RefProduct(m_lhs, m_rhs))
    /\ branch = "kernel" => alpha = 1

C6_Witness ==
  /\ pc = "plus_assigned"
  /\ branch = "lazy"
  /\ status = "ok"
  /\ m_lhs.cols >= 1
  /\ res # oldRes
  /\ res # RefProduct(m_lhs, m_rhs)

C6_WitnessKernel ==
  /\ pc = "plus_assigned"
  /\ branch = "kernel"
  /\ kernel = "ColMajorNoDirectTimesVector"
  /\ res # oldRes

\* C8: a product whose operands have different run-time inner sizes fails the
\* constructor's assertion and is never evaluated; when both inner sizes are
\* fixed at compile time and differ, operator* is rejected statically.
C8_MismatchedInnerSizes ==
  pc # "start" =>
    /\ (pc \notin {"rejected", "aborted"}) => m_lhs.cols = m_rhs.rows
    /\ (pc # "rejected" /\ m_lhs.cols # m_rhs.rows) =>
         /\ pc = "aborted"
         /\ status = "assert_failed"
         /\ NothingEvaluated
    /\ (/\ Lhs.ColsAtCompileTime # Dynamic
        /\ Rhs.RowsAtCompileTime # Dynamic
        /\ Lhs.ColsAtCompileTime # Rhs.RowsAtCompileTime) =>
         /\ pc = "rejected"
         /\ status = "static_assert"
         /\ traits = None
         /\ NothingEvaluated

C8_Witness ==
  /\ pc = "aborted"
  /\ m_lhs.cols # m_rhs.rows
  /\ status = "assert_failed"

C8_WitnessStatic ==
  /\ pc = "rejected"
  /\ Lhs.ColsAtCompileTime # Rhs.RowsAtCompileTime

\* C9: with a run-time inner size of 0 the dynamic scalar path and both
\* dynamic packet paths fail the assertion lhs.cols() > 0 before any operand
\* coefficient is read, and return nothing.
C9_ZeroInnerSizeAsserts ==
  /\ (/\ pc = "coeff_done"
      /\ ScalarVariant
      /\ ScalarCoeffImpl(traits).Index = Dynamic
      /\ m_lhs.cols = 0) =>
       (status = "assert_failed" /\ reads = 0 /\ out = Undef)
  /\ (/\ pc = "packet_done"
      /\ ~Unroll(traits)
      /\ m_lhs.cols = 0) =>
       (status = "assert_failed" /\ reads = 0 /\ out = Undef)

C9_Witness ==
  /\ pc = "coeff_done"
  /\ ScalarVariant
  /\ m_lhs.cols = 0
  /\ status = "assert_failed"

C9_WitnessPacketRowMajor ==
  /\ pc = "packet_done"
  /\ m_lhs.cols = 0
  /\ "RowMajorBit" \in traits.Flags

C9_WitnessPacketColMajor ==
  /\ pc = "packet_done"
  /\ m_lhs.cols = 0
  /\ "RowMajorBit" \notin traits.Flags

(***************************************************************************)
(* Properties of the kernel callers.                                       *)
(***************************************************************************)
\* the callers that extract the operands: the general matrix-matrix caller
\* and the four selectors with direct access
ExtractingKernels ==
  {"GeneralMatrixMatrix", "ColMajorTimesVector", "VectorTimesRowMajor",
   "RowMajorTimesVector", "VectorTimesColMajor"}

\* the destination the selector started from
StartOf == IF pc = "lazy_assigned" THEN setZero(oldRes) ELSE oldRes

\* C11: in the general matrix-matrix caller and in the four selectors with
\* direct access the kernel receives the extracted base operands and the one
\* scalar alpha * (factor of the left operand) * (factor of the right operand);
\* so the destination gains alpha * s * (A * B), the same whether s is held by
\* the left operand, by the right operand or applied to the product.
C11_ScalingFusion ==
  (pc \in Assigned /\ branch = "kernel" /\ kernel \in ExtractingKernels) =>
    LET A == Matrix(m_lhs.rows, m_lhs.cols, m_lhs.base)
        B == Matrix(m_rhs.rows, m_rhs.cols, m_rhs.base)
        s == m_lhs.factor * m_rhs.factor
    IN /\ status = "ok"
       /\ call.alpha = alpha * m_lhs.factor * m_rhs.factor
       /\ call.lhs = A
       /\ call.rhs = B
       /\ res = MatAdd(StartOf, MatScale(alpha * s, RefProduct(A, B)))
       /\ res = SelectorRun(kernel, dest, Lhs, ScalarMultiple(s, A),
                            Rhs, ScalarMultiple(1, B), StartOf, alpha).value
       /\ res = SelectorRun(kernel, dest, Lhs, ScalarMultiple(1, A),
                            Rhs, ScalarMultiple(s, B), StartOf, alpha).value

C11_Witness ==
  /\ pc \in Assigned
  /\ branch = "kernel"
  /\ kernel = "ColMajorTimesVector"
  /\ m_lhs.factor = ScaleFactor
  /\ m_rhs.factor = 1
  /\ status = "ok"
  /\ res # MatAdd(StartOf, MatScale(alpha, RefProduct(call.lhs, call.rhs)))

C11_WitnessGemm ==
  /\ pc = "minus_assigned"
  /\ branch = "kernel"
  /\ kernel = "GeneralMatrixMatrix"
  /\ m_lhs.factor = ScaleFactor
  /\ m_rhs.factor = ScaleFactor
  /\ call.alpha = -(ScaleFactor * ScaleFactor)
  /\ res # oldRes

\* the six selectors for a product with a vector
MatVecKernels ==
  {"ColMajorNoDirectTimesVector", "ColMajorTimesVector",
   "VectorTimesRowMajorNoDirect", "VectorTimesRowMajor",
   "RowMajorTimesVector", "VectorTimesColMajor"}

\* the positions of the events of one kind
EventsAt(op) == { i \in 1..Len(events) : events[i].op = op }

\* the static condition under which the resolved selector takes no scratch
WorksInPlace ==
  LET P == PacketSizeOf(Lhs.Scalar) IN
  CASE kernel = "ColMajorTimesVector" ->
         (P = 1 \/ ("PacketAccessBit" \in dest /\ "RowMajorBit" \notin dest))
    [] kernel = "VectorTimesRowMajor" ->
         (P = 1 \/ ("PacketAccessBit" \in dest /\ "RowMajorBit" \in dest))
    [] kernel = "RowMajorTimesVector" ->
         ((P = 1 \/ "PacketAccessBit" \in Rhs.Flags) /\ "RowMajorBit" \notin Rhs.Flags)
    [] kernel = "VectorTimesColMajor" ->
         ((P = 1 \/ "PacketAccessBit" \in Lhs.Flags) /\ "RowMajorBit" \in Lhs.Flags)
    [] OTHER -> TRUE

\* the element count of the vector the resolved selector may copy to scratch
ScratchSize ==
  CASE kernel = "RowMajorTimesVector" -> m_rhs.rows * m_rhs.cols
    [] kernel = "VectorTimesColMajor" -> m_lhs.rows * m_lhs.cols
    [] OTHER -> res.rows * res.cols

\* C12: in every selector for a product with a vector, a scratch buffer is
\* acquired exactly when the selector's static condition for working in place
\* is false, and each buffer acquired is released exactly once, after its
\* acquisition and before run returns, with the element count it was acquired
\* with; nothing is released that was not acquired.
C12_ScratchReleasedOnce ==
  (pc \in Assigned /\ branch = "kernel" /\ kernel \in MatVecKernels) =>
    /\ Cardinality(EventsAt("new")) = (IF WorksInPlace THEN 0 ELSE 1)
    /\ Cardinality(EventsAt("delete")) = Cardinality(EventsAt("new"))
    /\ \A i \in EventsAt("new") :
         /\ events[i].n = ScratchSize
         /\ \E j \in EventsAt("delete") : j > i /\ events[j].n = events[i].n
    /\ \A j \in EventsAt("delete") :
         /\ \E i \in EventsAt("new") : i < j /\ events[i].n = events[j].n
         /\ j = Len(events)

C12_Witness ==
  /\ pc \in Assigned
  /\ branch = "kernel"
  /\ kernel = "ColMajorTimesVector"
  /\ status = "ok"
  /\ EventsAt("new") = {1}
  /\ EventsAt("delete") = {Len(events)}
  /\ events[1].n >= 2

C12_WitnessOperand ==
  /\ pc \in Assigned
  /\ branch = "kernel"
  /\ kernel = "RowMajorTimesVector"
  /\ EventsAt("new") = {1}
  /\ m_rhs.factor = ScaleFactor

C12_WitnessInPlace ==
  /\ pc \in Assigned
  /\ branch = "kernel"
  /\ kernel = "VectorTimesColMajor"
  /\ events = <<KernelEvent>>

\* C16: in the ColMajor x Vector selector and in the Vector x RowMajor
\* selector the destination ends as the destination it started from plus
\* actualAlpha * A * x on the in-place route and on the scratch route; on the
\* scratch route the buffer is filled with the destination before the kernel
\* runs and copied back to the destination after it.
C16_ScratchKeepsDestination ==
  (/\ pc \in Assigned
   /\ branch = "kernel"
   /\ kernel \in {"ColMajorTimesVector", "VectorTimesRowMajor"}) =>
    LET n == res.rows * res.cols IN
      /\ status = "ok"
      /\ res = MatAdd(StartOf, MatScale(call.alpha, RefProduct(call.lhs, call.rhs)))
      /\ res = MatAdd(StartOf, MatScale(alpha, RefProduct(m_lhs, m_rhs)))
      /\ IF WorksInPlace
           THEN events = <<[op |-> "kernel", n |-> 0]>>
           ELSE events = <<[op |-> "new", n |-> n], [op |-> "copy_in", n |-> n],
                           [op |-> "kernel", n |-> 0],
                           [op |-> "copy_out", n |-> n], [op |-> "delete", n |-> n]>>

C16_Witness ==
  /\ pc = "plus_assigned"
  /\ branch = "kernel"
  /\ kernel = "ColMajorTimesVector"
  /\ ~WorksInPlace
  /\ Len(events) = 5
  /\ oldRes # setZero(oldRes)
  /\ res # oldRes
  /\ res # RefProduct(m_lhs, m_rhs)

C16_WitnessTransposed ==
  /\ pc = "plus_assigned"
  /\ branch = "kernel"
  /\ kernel = "VectorTimesRowMajor"
  /\ ~WorksInPlace
  /\ oldRes # setZero(oldRes)
  /\ res # oldRes
  /\ res # RefProduct(m_lhs, m_rhs)

C16_WitnessInPlace ==
  /\ pc = "plus_assigned"
  /\ branch = "kernel"
  /\ kernel = "VectorTimesRowMajor"
  /\ WorksInPlace
  /\ m_lhs.factor = ScaleFactor
  /\ res # oldRes

(***************************************************************************)
(* Properties of the lazy evaluators.                                      *)
(***************************************************************************)
ResultIsRowMajor == "RowMajorBit" \in traits.Flags

\* the operand whose packets Product::packet reads has packets to read
PacketOperandHasPackets ==
  IF ResultIsRowMajor THEN "PacketAccessBit" \in Rhs.Flags
                      ELSE "PacketAccessBit" \in Lhs.Flags

\* the position of lane j of the packet requested at (at[1], at[2])
LaneRow(j) == IF ResultIsRowMajor THEN at[1] ELSE at[1] + j
LaneCol(j) == IF ResultIsRowMajor THEN at[2] + j ELSE at[2]

\* C13: where a packet is requested from a product whose packet operand has
\* packet access, lane j of packet(r,c) is coeff(r, c+j) of the product for a
\* row-major result and coeff(r+j, c) for a column-major result, in the
\* unrolled and in the dynamic variant; the accumulator is formed by ei_pmul
\* for k = 0 and by one ei_pmadd for each k = 1, ..., inner-1 in this order,
\* from broadcast(A(r,k)) and B.packet(k,c), respectively A.packet(r,k) and
\* broadcast(B(k,c)).
C13_PacketLanesAreCoeffs ==
  (pc = "packet_done" /\ status = "ok" /\ PacketOperandHasPackets) =>
    LET P == PacketSizeOf(Lhs.Scalar)
        inner == m_lhs.cols
        a == [k \in 0..(inner - 1) |->
                IF ResultIsRowMajor
                  THEN [j \in 0..(P - 1) |-> coeff(m_lhs, at[1], k)]
                  ELSE packet(Lhs, m_lhs, at[1], k, P)]
        b == [k \in 0..(inner - 1) |->
                IF ResultIsRowMajor
                  THEN packet(Rhs, m_rhs, k, at[2], P)
                  ELSE [j \in 0..(P - 1) |-> coeff(m_rhs, k, at[2])]]
    IN /\ inner >= 1
       /\ DOMAIN out = 0..(P - 1)
       /\ \A j \in 0..(P - 1) :
            /\ out[j] = RefCoeff(m_lhs, m_rhs, LaneRow(j), LaneCol(j))
            /\ out[j] = ScalarCoeffImpl_run(traits, LaneRow(j), LaneCol(j),
                                            Lhs, m_lhs, Rhs, m_rhs).value
       /\ Len(steps) = inner
       /\ steps[1] = [op |-> "pmul", k |-> 0]
       /\ \A i \in 2..inner : steps[i] = [op |-> "pmadd", k |-> i - 1]
       /\ out = RunPacketSteps(steps, Len(steps), a, b)

C13_Witness ==
  /\ pc = "packet_done"
  /\ status = "ok"
  /\ PacketOperandHasPackets
  /\ ResultIsRowMajor
  /\ ~Unroll(traits)
  /\ m_lhs.cols = 3
  /\ at[2] >= 1
  /\ out[0] # out[1]
  /\ out[0] # coeff(m_lhs, at[1], 0) * coeff(m_rhs, 0, at[2])

C13_WitnessColMajorUnrolled ==
  /\ pc = "packet_done"
  /\ status = "ok"
  /\ PacketOperandHasPackets
  /\ ~ResultIsRowMajor
  /\ Unroll(traits)
  /\ Len(steps) = 2
  /\ at[1] >= 1
  /\ out[0] # out[1]

C13_WitnessRowMajorUnrolled ==
  /\ pc = "packet_done"
  /\ PacketOperandHasPackets
  /\ ResultIsRowMajor
  /\ Unroll(traits)
  /\ Len(steps) = 2
  /\ out[0] # out[1]

C13_WitnessColMajorDynamic ==
  /\ pc = "packet_done"
  /\ status = "ok"
  /\ PacketOperandHasPackets
  /\ ~ResultIsRowMajor
  /\ ~Unroll(traits)
  /\ m_lhs.cols >= 2

\* C14: in the unrolled and in the dynamic scalar variant, with an inner size
\* N of at least 1, the accumulator is assigned the term k = 0 and the terms
\* k = 1, ..., N-1 are then added in increasing order, each once; the value
\* returned is the accumulator after these statements, and the unrolled
\* recursion for N and the run-time loop for N execute the same statements
\* and return the same value.
C14_SumOrderLeftToRight ==
  (pc = "coeff_done" /\ ScalarVariant /\ m_lhs.cols >= 1) =>
    LET N == m_lhs.cols
        terms == [k \in 0..(N - 1) |-> coeff(m_lhs, at[1], k) * coeff(m_rhs, k, at[2])]
    IN /\ status = "ok"
       /\ Len(steps) = N
       /\ steps[1] = [op |-> "assign", k |-> 0]
       /\ \A i \in 2..N : steps[i] = [op |-> "add", k |-> i - 1]
       /\ out = RunSteps(steps, Len(steps), terms)
       /\ ei_product_coeff_impl_unrolled_steps(N - 1) = ei_product_coeff_impl_dynamic_steps(m_lhs)
       /\ ei_product_coeff_impl_unrolled(N - 1, at[1], at[2], m_lhs, m_rhs)
            = ei_product_coeff_impl_dynamic(at[1], at[2], m_lhs, m_rhs).value

C14_Witness ==
  /\ pc = "coeff_done"
  /\ ScalarVariant
  /\ ScalarCoeffImpl(traits).Index = Dynamic
  /\ Len(steps) = 3
  /\ coeff(m_lhs, at[1], 1) * coeff(m_rhs, 1, at[2]) # 0
  /\ coeff(m_lhs, at[1], 2) * coeff(m_rhs, 2, at[2]) # 0

C14_WitnessUnrolled ==
  /\ pc = "coeff_done"
  /\ ScalarVariant
  /\ ScalarCoeffImpl(traits).Index = 1
  /\ steps = <<[op |-> "assign", k |-> 0], [op |-> "add", k |-> 1]>>
  /\ coeff(m_lhs, at[1], 1) * coeff(m_rhs, 1, at[2]) # 0

\* C15 as stated: the inner-vectorized variant returns the reduced packet
\* accumulator plus the value computed by the unrolled scalar path.
C15_ScalarPathAddedToPredux ==
  (/\ pc = "coeff_done"
   /\ ~ScalarVariant
   /\ ScalarCoeffImpl(traits).Index # Dynamic) =>
    LET P == PacketSizeOf(Lhs.Scalar)
        Index == ScalarCoeffImpl(traits).Index
    IN out = ei_predux(ei_product_coeff_vectorized_unroller(Index + 1 - P, at[1], at[2],
                                                           Lhs, m_lhs, Rhs, m_rhs, P))
               + ei_product_coeff_impl_unrolled(Index, at[1], at[2], m_lhs, m_rhs)

\* C15 amended: in the inner-vectorized variant with a static inner size, a
\* multiple of the packet width P, the packet accumulator is the sum of
\* lhs.packet(r,k) * rhs.packet(k,c) over k = 0, P, ..., inner-P, each once;
\* the unrolled scalar path then writes the whole sum over k = 0, ..., inner-1
\* (not a tail) to res, and res is last overwritten by, not added to, the
\* reduction of the packet accumulator. The value returned is the sum over
\* all k of A(r,k) * B(k,c).
C15_PreduxOverwritesScalarPath ==
  (/\ pc = "coeff_done"
   /\ ~ScalarVariant
   /\ ScalarCoeffImpl(traits).Index # Dynamic) =>
    LET P == PacketSizeOf(Lhs.Scalar)
        N == m_lhs.cols
        Index == ScalarCoeffImpl(traits).Index
        packets == N \div P
        a == [k \in 0..(N - 1) |-> packet(Lhs, m_lhs, at[1], k, P)]
        b == [k \in 0..(N - 1) |-> packet(Rhs, m_rhs, k, at[2], P)]
        terms == [k \in 0..(N - 1) |-> coeff(m_lhs, at[1], k) * coeff(m_rhs, k, at[2])]
    IN /\ status = "ok"
       /\ Index = N - 1
       /\ N % P = 0
       /\ Len(steps) = packets + N + 1
       /\ steps[1] = [op |-> "pmul", k |-> 0]
       /\ \A i \in 2..packets : steps[i] = [op |-> "padd_pmul", k |-> (i - 1) * P]
       /\ steps[packets + 1] = [op |-> "assign", k |-> 0]
       /\ \A i \in 2..N : steps[packets + i] = [op |-> "add", k |-> i - 1]
       /\ steps[Len(steps)] = [op |-> "assign_predux", k |-> Index]
       /\ RunSteps(SubSeq(steps, packets + 1, packets + N), N, terms)
            = RefCoeff(m_lhs, m_rhs, at[1], at[2])
       /\ out = ei_predux(RunPacketSteps(steps, packets, a, b))
       /\ out = RefCoeff(m_lhs, m_rhs, at[1], at[2])

C15_Witness ==
  /\ pc = "coeff_done"
  /\ ~ScalarVariant
  /\ ScalarCoeffImpl(traits).Index = TwoPackets - 1
  /\ status = "ok"
  /\ out # 0
  /\ Len(steps) = TwoPackets + 3

\* the (row, col) that coeff(index) should evaluate for the run-time shape
RowOfIndex(i) == IF rows(m_lhs, m_rhs) = 1 THEN 0 ELSE i
ColOfIndex(i) == IF rows(m_lhs, m_rhs) = 1 THEN i ELSE 0

\* C17: for a product that is a vector at run time and an index i below its
\* size, coeff(i) evaluates (0,i) for a row vector and (i,0) for a column
\* vector, a position inside the product, and returns what coeff(row, col)
\* returns there; also when the row count is only known at run time.
C17_IndexedCoeffMatchesCoeff ==
  pc = "coeff_index_done" =>
    LET i == at[3]
        o == ScalarCoeffImpl_run(traits, RowOfIndex(i), ColOfIndex(i),
                                 Lhs, m_lhs, Rhs, m_rhs)
    IN /\ at[1] = RowOfIndex(i)
       /\ at[2] = ColOfIndex(i)
       /\ at[1] < rows(m_lhs, m_rhs)
       /\ at[2] < cols(m_lhs, m_rhs)
       /\ out = o.value
       /\ status = o.status

\* what does hold: the same for the products whose compile-time row count
\* tells the orientation (1 for a row vector, another value for a column)
C17_HoldsWhenRowCountIsStatic ==
  (/\ pc = "coeff_index_done"
   /\ (traits.RowsAtCompileTime = 1 \/ rows(m_lhs, m_rhs) # 1)) =>
    LET i == at[3]
        o == ScalarCoeffImpl_run(traits, RowOfIndex(i), ColOfIndex(i),
                                 Lhs, m_lhs, Rhs, m_rhs)
    IN /\ at[1] = RowOfIndex(i)
       /\ at[2] = ColOfIndex(i)
       /\ at[1] < rows(m_lhs, m_rhs)
       /\ at[2] < cols(m_lhs, m_rhs)
       /\ out = o.value
       /\ status = o.status

\* a row vector known at run time only, read at an index past its row count
C17_OutOfRangeRead ==
  /\ pc = "coeff_index_done"
  /\ traits.RowsAtCompileTime = Dynamic
  /\ rows(m_lhs, m_rhs) = 1
  /\ at[3] >= 1
  /\ at[1] >= rows(m_lhs, m_rhs)

(***************************************************************************)
(* Properties of the classifier together with the selector and the traits. *)
(***************************************************************************)
\* C18: every pair of operand types that the classifier tags CacheFriendly
\* resolves, in the selector, to exactly one specialization that defines run
\* or to the primary template: never to one of the two empty specializations,
\* never to two specializations at once, and never with both one row and one
\* column at compile time.
C18_SelectorTotalOnCacheFriendly ==
  (pc = "selected" /\ mode = "CacheFriendlyProduct") =>
    /\ kernel \in DefinedKernels
    /\ kernel \notin DiscardedSpecializations
    /\ Cardinality(MatchingSpecializations(SelectorTags(Lhs, Rhs))) <= 1
    /\ ~(Lhs.RowsAtCompileTime = 1 /\ Rhs.ColsAtCompileTime = 1)

\* what does hold: no CacheFriendly pair is ambiguous or lands on the empty
\* RowMajor/NoDirectAccess x vector specialization
C18_NeverAmbiguousNorFirstDiscarded ==
  (pc = "selected" /\ mode = "CacheFriendlyProduct") =>
    /\ kernel # "Ambiguous"
    /\ kernel # "DiscardedRowMajorNoDirectTimesVector"
    /\ Cardinality(MatchingSpecializations(SelectorTags(Lhs, Rhs))) <= 1
    /\ ~(Lhs.RowsAtCompileTime = 1 /\ Rhs.ColsAtCompileTime = 1)

\* a CacheFriendly product on the empty vector x ColMajor/NoDirectAccess
\* specialization
C18_CacheFriendlyOnDiscarded ==
  /\ pc = "selected"
  /\ mode = "CacheFriendlyProduct"
  /\ kernel = "DiscardedVectorTimesColMajorNoDirect"
  /\ Lhs.RowsAtCompileTime = 1

\* the packet operand of a product with the given traits can be vectorized
PacketOperandCanVectorize(tr) ==
  IF "RowMajorBit" \in tr.Flags
    THEN CanVectorizeRhs(Lhs, Rhs)
    ELSE CanVectorizeLhs(Lhs, Rhs)

\* C19: whenever the Flags of a product hold PacketAccessBit, the operand
\* whose packets Product::packet reads can be vectorized: the right operand
\* (CanVectorizeRhs) for a row-major result, the left operand
\* (CanVectorizeLhs) for a column-major result; for both product modes.
C19_PacketAccessMeansOperandVectorizable ==
  (pc \in {"traits", "selected"} /\ "PacketAccessBit" \in traits.Flags) =>
    PacketOperandCanVectorize(traits)

\* what does hold: the same for the NormalProduct over any pair of operands
C19_HoldsForNormalProduct ==
  pc \in {"traits", "selected"} =>
    LET tr == ei_traits_Product(Lhs, Rhs, "NormalProduct") IN
      "PacketAccessBit" \in tr.Flags => PacketOperandCanVectorize(tr)

\* a CacheFriendly product that advertises packets and reads them from a
\* left operand that has none
C19_PacketsFromUnvectorizableLhs ==
  /\ pc = "traits"
  /\ mode = "CacheFriendlyProduct"
  /\ "PacketAccessBit" \in traits.Flags
  /\ "RowMajorBit" \notin traits.Flags
  /\ ~CanVectorizeLhs(Lhs, Rhs)
  /\ CanVectorizeRhs(Lhs, Rhs)

====
